---- MODULE Spec2Model ----
(***************************************************************************)
(* Model of the ai-dj mixing core: the layer registry driven by            *)
(* DJSystem._process_dj_decision (src/core/dj_system.py), the layers       *)
(* (src/core/audio_layer_sync.py) reacting to the MIDI clock, and the      *)
(* effect planner DJSystem._adjust_effects_for_layering.                   *)
(*                                                                         *)
(* core/layer_manager.py is not part of the sources: LayerManager's        *)
(* operations are modelled from the design document (section 4.2) and are  *)
(* marked "LayerManager (design document)" below.                          *)
(*                                                                         *)
(* Units: volumes and pans are in hundredths (0.8 is 80), profile          *)
(* energies in hundredths, effect gains in ten-thousandths, so that the    *)
(* arithmetic of the code is exact over the integers.                      *)
(***************************************************************************)
EXTENDS Integers, Sequences, FiniteSets, TLC

VARIABLES
    layers,            \* LayerManager.layers: layer_id -> AudioLayerSync object
    pending_removals,  \* LayerManager: ids to release at the next measure_start
    session_state,     \* DJAILL.session_state (the part DJSystem writes)
    session_running,   \* DJSystem.session_running
    pc,                \* position of the decision thread (_main_loop)
    cur,               \* locals of the decision being processed
    layer_to_remove,   \* local of _process_dj_decision between pop() and stop()
    notified,          \* layer_info of each on_max_layers_reached call of the last step
    released,          \* the layer objects the last step released, as it left them
    started,           \* ids of the layers whose buffer the last step started
    plan               \* state of a caller of the effect planner (SpecPlan)

vars == <<layers, pending_removals, session_state, session_running, pc, cur,
          layer_to_remove, notified, released, started, plan>>

sysvars == <<layers, pending_removals, session_state, session_running, pc, cur,
             layer_to_remove, notified, released, started>>

-----------------------------------------------------------------------------
(* Dictionaries *)

EmptyDict == [k \in {} |-> 0]

\* dict.get(key, default)
get(d, k, default) == IF k \in DOMAIN d THEN d[k] ELSE default

\* d[key] = value
put(d, k, v) == [x \in (DOMAIN d) \cup {k} |-> IF x = k THEN v ELSE d[x]]

\* d.pop(key) / del d[key]
del(d, k) == [x \in (DOMAIN d) \ {k} |-> d[x]]

\* np.clip(x, lo, hi)
clip(x, lo, hi) == IF x < lo THEN lo ELSE IF x > hi THEN hi ELSE x

-----------------------------------------------------------------------------
(* Inputs *)

max_concurrent_layers == 3

\* one id more than the mix can hold
LayerIds == 1..(max_concurrent_layers + 1)

\* playback_params of a decision: the keys may be absent. An add_replace is
\* given none (the layer takes the defaults), a modify either
PlaybackParams == {EmptyDict, [volume |-> 50, pan |-> -50]}

-----------------------------------------------------------------------------
(* AudioLayerSync *)

\* __init__: volume is scaled by 0.8 (not clamped); load_ok is whether sf.read
\* succeeded; a new layer is neither armed nor a listener of the clock
AudioLayerSync(layer_id, volume, pan, load_ok) ==
    [layer_id |-> layer_id, volume |-> (volume * 8) \div 10, pan |-> pan,
     is_armed |-> FALSE, subscribed |-> FALSE, loaded |-> load_ok]

play_arms_unloaded(layer) == [layer EXCEPT !.is_armed = TRUE, !.subscribed = TRUE]

\* play(): arms and subscribes, unless the audio is not loaded
play(layer) ==
    IF ~layer.loaded THEN layer
    ELSE [layer EXCEPT !.is_armed = TRUE, !.subscribed = TRUE]

stop_keeps_listener(layer) == [layer EXCEPT !.is_armed = FALSE]

stop_stays_armed(layer) == [layer EXCEPT !.subscribed = FALSE]

\* stop(): disarms and removes the layer from the clock's listeners
stop(layer) == [layer EXCEPT !.is_armed = FALSE, !.subscribed = FALSE]

\* set_volume(): clamps to [0,1], scales by 0.8
set_volume(layer, volume) ==
    [layer EXCEPT !.volume = (clip(volume, 0, 100) * 8) \div 10]

set_pan_disarms(layer, pan) ==
    [layer EXCEPT !.pan = clip(pan, -100, 100), !.is_armed = FALSE]

\* set_pan(): re-reads the file, clamps to [-1,1]
set_pan(layer, pan) == [layer EXCEPT !.pan = clip(pan, -100, 100)]

\* set_pan() re-reads the file with sf.read outside any try: it raises when the
\* file cannot be read, which is the case of a layer whose load failed
set_pan_raises(layer) == ~layer.loaded

triggers_unarmed(layer, event_type) == event_type = "measure_start"

\* on_midi_event(): a layer starts its buffer on "measure_start" if it is armed
triggers(layer, event_type) == event_type = "measure_start" /\ layer.is_armed

-----------------------------------------------------------------------------
(* DJSystem: the callback and the locals of a decision *)

handle_max_layers_drops_info(ss, layer_info) ==
    [ss EXCEPT !.need_layer_removal = TRUE]

\* handle_max_layers(): the capacity-exceeded notification reaches the decision
\* source through session_state
handle_max_layers(ss, layer_info) ==
    [ss EXCEPT !.need_layer_removal = TRUE, !.layers_to_choose_from = layer_info]

\* session_state["need_layer_removal"] = False. layers_to_choose_from is read
\* only while the flag is set (the loop prints it): its value is dead once the
\* flag is cleared, and the state keeps it only while the flag is set
clear_need_layer_removal(ss) ==
    [ss EXCEPT !.need_layer_removal = FALSE, !.layers_to_choose_from = {}]

stop_behavior_always_immediate(params) == "immediate"

\* params.get("stop_behavior", "next_bar")
stop_behavior_from_llm(params) == get(params, "stop_behavior", "next_bar")

\* the locals of a decision: the operation, the layer id, the playback_params and
\* the part of the parameters that may hold "stop_behavior", as the decision
\* source gave them, and whether the file of the new layer can be read
NoDecision ==
    [operation |-> "none", layer_id |-> 0, playback_params |-> EmptyDict,
     params |-> EmptyDict, load_ok |-> TRUE]

NoLayer == AudioLayerSync(0, 0, 0, FALSE)

-----------------------------------------------------------------------------
(* LayerManager (design document, section 4.2) *)

\* the snapshot handed to on_max_layers_reached: one entry per active layer
\* (the metadata values of the entries are not modelled)
layer_info_of(ls) == DOMAIN ls

mix_is_full_off_by_one(ls, layer_id) ==
    layer_id \notin DOMAIN ls /\ Cardinality(DOMAIN ls) > max_concurrent_layers

\* a new id is rejected when the mix holds max_concurrent_layers layers
mix_is_full(ls, layer_id) ==
    layer_id \notin DOMAIN ls /\ Cardinality(DOMAIN ls) >= max_concurrent_layers

\* what is recorded of a layer object that was released
Released(layer) ==
    [layer_id |-> layer.layer_id, is_armed |-> layer.is_armed,
     subscribed |-> layer.subscribed]

\* the value every operation returns: the manager's state, what it released,
\* what it notified, and whether an exception left it
Outcome(ls, pend, ss, note, rel, raised) ==
    [layers |-> ls, pending_removals |-> pend, session_state |-> ss,
     notified |-> note, released |-> rel, raised |-> raised]

\* add_replace
add_replace(ls, pend, ss, layer_id, playback_params, load_ok) ==
    IF mix_is_full(ls, layer_id)
    THEN Outcome(ls, pend, handle_max_layers(ss, layer_info_of(ls)),
                 <<layer_info_of(ls)>>, {}, FALSE)
    ELSE LET old == IF layer_id \in DOMAIN ls
                    THEN {Released(stop(ls[layer_id]))} ELSE {}
             new == play(AudioLayerSync(layer_id,
                                        get(playback_params, "volume", 90),
                                        get(playback_params, "pan", 0),
                                        load_ok))
         IN  Outcome(put(ls, layer_id, new), pend, ss, <<>>, old, FALSE)

\* modify: pan and gain in place, without a new layer object; unknown id: nothing
modify(ls, pend, ss, layer_id, playback_params) ==
    IF layer_id \notin DOMAIN ls
    THEN Outcome(ls, pend, ss, <<>>, {}, FALSE)
    ELSE LET l0 == ls[layer_id]
             raises == "pan" \in DOMAIN playback_params /\ set_pan_raises(l0)
             l1 == IF "pan" \in DOMAIN playback_params /\ ~raises
                   THEN set_pan(l0, playback_params.pan) ELSE l0
             l2 == IF "volume" \in DOMAIN playback_params /\ ~raises
                   THEN set_volume(l1, playback_params.volume) ELSE l1
         IN  Outcome(put(ls, layer_id, l2), pend, ss, <<>>, {}, raises)

\* remove: "immediate" releases and evicts; "next_bar" marks the id
remove(ls, pend, ss, layer_id, stop_behavior) ==
    IF layer_id \notin DOMAIN ls
    THEN Outcome(ls, pend, ss, <<>>, {}, FALSE)
    ELSE IF stop_behavior = "immediate"
    THEN Outcome(del(ls, layer_id), pend \ {layer_id}, ss, <<>>,
                 {Released(stop(ls[layer_id]))}, FALSE)
    ELSE Outcome(ls, pend \cup {layer_id}, ss, <<>>, {}, FALSE)

manage_layer(ls, pend, ss, d) ==
    CASE d.operation = "add_replace" ->
             add_replace(ls, pend, ss, d.layer_id, d.playback_params, d.load_ok)
      [] d.operation = "modify" ->
             modify(ls, pend, ss, d.layer_id, d.playback_params)
      [] d.operation = "remove" ->
             remove(ls, pend, ss, d.layer_id, stop_behavior_from_llm(d.params))
      [] OTHER -> Outcome(ls, pend, ss, <<>>, {}, FALSE)

\* stop_all_layers: releases every layer
stop_all_layers(ls) == {Released(stop(ls[id])) : id \in DOMAIN ls}

\* the clock-event handler: the ids marked for the next bar are released
due_at_measure_start(ls, pend) == pend \cap DOMAIN ls

-----------------------------------------------------------------------------
(* No caller of the planner is modelled while the layer system runs *)

PlanIdle == [pc |-> "off"]

-----------------------------------------------------------------------------
(* The decisions the decision source may return *)

RemoveParams ==
    {EmptyDict, [stop_behavior |-> "immediate"], [stop_behavior |-> "next_bar"]}

\* Layer ids are opaque strings: a decision names a layer of the mapping, or,
\* for a layer that is not in it, the first id that is free
FreeId(ls) ==
    CHOOSE id \in LayerIds \ DOMAIN ls :
        \A other \in LayerIds \ DOMAIN ls : id <= other

NamedIds(ls) == (DOMAIN ls) \cup {FreeId(ls)}

Decisions(ls) ==
    [operation : {"add_replace"}, layer_id : NamedIds(ls),
     playback_params : {EmptyDict}, params : {EmptyDict}, load_ok : BOOLEAN]
    \cup
    [operation : {"modify"}, layer_id : NamedIds(ls),
     playback_params : PlaybackParams, params : {EmptyDict}, load_ok : {TRUE}]
    \cup
    [operation : {"remove"}, layer_id : NamedIds(ls),
     playback_params : {EmptyDict}, params : RemoveParams, load_ok : {TRUE}]

-----------------------------------------------------------------------------
(* Initial state: DJSystem.__init__ has run, no session is started *)

InitSystem ==
    /\ layers = EmptyDict
    /\ pending_removals = {}
    /\ session_state = [active_layers |-> {}, need_layer_removal |-> FALSE,
                        layers_to_choose_from |-> {}]
    /\ session_running = FALSE
    /\ pc = "not_started"
    /\ cur = NoDecision
    /\ layer_to_remove = NoLayer
    /\ notified = <<>>
    /\ released = {}
    /\ started = {}

Init == InitSystem /\ plan = PlanIdle

-----------------------------------------------------------------------------
(* Main thread *)

\* start_session(): starts the decision thread
StartSession ==
    /\ ~session_running
    /\ pc = "not_started"
    /\ session_running' = TRUE
    /\ pc' = "idle"
    /\ notified' = <<>>
    /\ released' = {}
    /\ started' = {}
    /\ UNCHANGED <<layers, pending_removals, session_state, cur, layer_to_remove,
                   plan>>

\* stop_session(): clears session_running, then stop_all_layers()
StopSession ==
    /\ session_running
    /\ session_running' = FALSE
    /\ released' = stop_all_layers(layers)
    /\ layers' = EmptyDict
    /\ pending_removals' = {}
    /\ notified' = <<>>
    /\ started' = {}
    /\ UNCHANGED <<session_state, pc, cur, layer_to_remove, plan>>

-----------------------------------------------------------------------------
(* Decision thread: _main_loop and _process_dj_decision *)

\* one turn of the loop up to the call of manage_layer: the loop clears a
\* need_layer_removal left set, obtains a decision and reads its parameters
GetDecision ==
    /\ pc = "idle"
    /\ session_running
    /\ \E d \in Decisions(layers) : cur' = d
    /\ session_state' = clear_need_layer_removal(session_state)
    /\ notified' = <<>>
    /\ released' = {}
    /\ started' = {}
    /\ pc' = "manage"
    /\ UNCHANGED <<layers, pending_removals, session_running, layer_to_remove,
                   plan>>

\* while self.session_running: the loop ends once the session is stopped
MainLoopExit ==
    /\ pc = "idle"
    /\ ~session_running
    /\ pc' = "exited"
    /\ notified' = <<>>
    /\ released' = {}
    /\ started' = {}
    /\ UNCHANGED <<layers, pending_removals, session_state, session_running, cur,
                   layer_to_remove, plan>>

\* the call self.layer_manager.manage_layer(...); an exception of a modify
\* reaches the loop's handler, which drops the decision. Of the locals, the
\* code after the call reads the operation and the layer id (and the volume,
\* for the "volume" entry of active_layers, which the model does not hold)
ManageLayer ==
    /\ pc = "manage"
    /\ LET r == manage_layer(layers, pending_removals, session_state, cur)
       IN  /\ layers' = r.layers
           /\ pending_removals' = r.pending_removals
           /\ session_state' = r.session_state
           /\ notified' = r.notified
           /\ released' = r.released
           /\ pc' = IF r.raised THEN "idle" ELSE "update"
           /\ cur' = IF r.raised THEN NoDecision
                     ELSE [cur EXCEPT !.playback_params = EmptyDict,
                                      !.load_ok = TRUE]
    /\ started' = {}
    /\ UNCHANGED <<session_running, layer_to_remove, plan>>

\* session_state["active_layers"] after the call
active_layers_after(active, d, ls) ==
    CASE d.operation = "add_replace" ->
             IF d.layer_id \in DOMAIN ls THEN active \cup {d.layer_id}
             ELSE active \ {d.layer_id}
      [] d.operation = "remove" -> active \ {d.layer_id}
      [] OTHER -> active

\* after the call: session_state is updated, then, if need_layer_removal is
\* set, the first layer of the mapping is popped (which key is first depends on
\* the insertion order LayerManager keeps: any key may be)
PostManage ==
    /\ pc = "update"
    /\ LET ss == [session_state EXCEPT
                    !.active_layers = active_layers_after(@, cur, layers)]
       IN  IF ss.need_layer_removal /\ DOMAIN layers # {}
           THEN /\ \E layer_to_remove_id \in DOMAIN layers :
                      /\ layer_to_remove' = layers[layer_to_remove_id]
                      /\ layers' = del(layers, layer_to_remove_id)
                /\ session_state' = ss
                /\ pc' = "evict"
                /\ cur' = cur
           ELSE /\ session_state' = ss
                /\ pc' = "idle"
                /\ cur' = NoDecision
                /\ UNCHANGED <<layers, layer_to_remove>>
    /\ released' = {}
    /\ notified' = <<>>
    /\ started' = {}
    /\ UNCHANGED <<pending_removals, session_running, plan>>

\* layer_to_remove.stop(fadeout_ms=200, cleanup=True), then the bookkeeping
EvictStop ==
    /\ pc = "evict"
    /\ released' = {Released(stop(layer_to_remove))}
    /\ session_state' =
          clear_need_layer_removal(
              [session_state EXCEPT
                  !.active_layers = @ \ {layer_to_remove.layer_id}])
    /\ layer_to_remove' = NoLayer
    /\ pc' = "idle"
    /\ cur' = NoDecision
    /\ notified' = <<>>
    /\ started' = {}
    /\ UNCHANGED <<layers, pending_removals, session_running, plan>>

-----------------------------------------------------------------------------
(* Clock thread: the MIDI clock delivers events to its listeners *)

\* the layer objects that are listeners of the clock: those of the mapping and
\* the one popped from it and not yet stopped
Listeners(ls, popped) ==
    {l \in {ls[id] : id \in DOMAIN ls} \cup {popped} : l.subscribed}

\* "measure_start": the removals marked for the next bar are carried out, then
\* the event reaches every listener, and the armed ones start their buffer
MeasureStart ==
    /\ LET due == due_at_measure_start(layers, pending_removals)
           ls == [id \in (DOMAIN layers) \ due |-> layers[id]]
       IN  /\ layers' = ls
           /\ pending_removals' = {}
           /\ released' = {Released(stop(layers[id])) : id \in due}
           /\ started' = {l.layer_id : l \in
                             {x \in Listeners(ls, layer_to_remove) :
                                  triggers(x, "measure_start")}}
    /\ notified' = <<>>
    /\ UNCHANGED <<session_state, session_running, pc, cur, layer_to_remove,
                   plan>>

-----------------------------------------------------------------------------

Next ==
    \/ StartSession
    \/ StopSession
    \/ GetDecision
    \/ MainLoopExit
    \/ ManageLayer
    \/ PostManage
    \/ EvictStop
    \/ MeasureStart

Spec == Init /\ [][Next]_vars

\* C1: after every manage_layer call (and in every other state) the mapping
\* holds at most max_concurrent_layers layers
C1_CapacityInvariant == Cardinality(DOMAIN layers) <= max_concurrent_layers

\* a state with a full mix in which a further add_replace was just processed
C1_Witness ==
    /\ pc = "update"
    /\ cur.operation = "add_replace"
    /\ Cardinality(DOMAIN layers) = max_concurrent_layers

-----------------------------------------------------------------------------
(* DJSystem._create_default_profile. A sample type is a string that the code *)
(* tests for markers ("kick" in sample_type): it is modelled as the set of  *)
(* the markers it contains. Energies are in hundredths.                      *)

has_any(sample_type, markers) == sample_type \cap markers # {}

create_default_profile(sample_type) ==
    LET profile == [drums |-> 5, bass |-> 5, other |-> 60, vocals |-> 5,
                    guitar |-> 5, piano |-> 5]
    IN  IF has_any(sample_type, {"kick", "drum", "percussion"})
        THEN [profile EXCEPT !.drums = 70, !.other = 20]
        ELSE IF has_any(sample_type, {"bass"})
        THEN [profile EXCEPT !.bass = 70, !.other = 20]
        ELSE IF has_any(sample_type, {"vocal", "voice"})
        THEN [profile EXCEPT !.vocals = 70, !.other = 20]
        ELSE IF has_any(sample_type, {"guitar"})
        THEN [profile EXCEPT !.guitar = 70, !.other = 10]
        ELSE IF has_any(sample_type, {"piano", "keys", "chord"})
        THEN [profile EXCEPT !.piano = 70, !.other = 20]
        ELSE IF has_any(sample_type, {"pad", "ambient", "atmosphere"})
        THEN [profile EXCEPT !.other = 80, !.piano = 10]
        ELSE IF has_any(sample_type, {"fx", "effect"})
        THEN [profile EXCEPT !.other = 90]
        ELSE profile

-----------------------------------------------------------------------------
(* DJSystem._adjust_effects_for_layering, the effect planner.               *)
(*                                                                          *)
(* Python lists hold references: the effect records live in a heap (a       *)
(* sequence of dicts) and a list is a sequence of addresses into it.        *)
(* list.copy() makes a new list of the same addresses; effects[i][k] = v    *)
(* writes the record in the heap; append() allocates a new record.          *)
(* Cutoffs are in Hz, gains in ten-thousandths, decay and wet in tenths.    *)

min(a, b) == IF a < b THEN a ELSE b

RECURSIVE sum_values(_)
\* sum(d.values())
sum_values(d) ==
    IF DOMAIN d = {} THEN 0
    ELSE LET k == CHOOSE x \in DOMAIN d : TRUE
         IN  d[k] + sum_values(del(d, k))

\* the records a list refers to, in order: the list's deep value
deep_value(heap, effect_list) ==
    [i \in 1..Len(effect_list) |-> heap[effect_list[i]]]

has_effect_type(heap, effect_list, effect_type) ==
    \E i \in 1..Len(effect_list) :
        get(heap[effect_list[i]], "type", "") = effect_type

\* index of the first effect of the type (the code's -1 is 0 here)
find_effect(heap, effect_list, effect_type) ==
    IF has_effect_type(heap, effect_list, effect_type)
    THEN CHOOSE i \in 1..Len(effect_list) :
            /\ get(heap[effect_list[i]], "type", "") = effect_type
            /\ \A j \in 1..(i - 1) :
                   get(heap[effect_list[j]], "type", "") # effect_type
    ELSE 0

append_in_front(s, effect) ==
    [heap |-> Append(s.heap, effect),
     effects |-> <<Len(s.heap) + 1>> \o s.effects]

\* effects.append({...})
append(s, effect) ==
    [heap |-> Append(s.heap, effect),
     effects |-> Append(s.effects, Len(s.heap) + 1)]

\* effects[idx][key] = value
setitem(s, idx, key, value) ==
    [s EXCEPT !.heap[s.effects[idx]] = put(@, key, value)]

\* strong_elements: per class, the number of existing layers above the
\* "strong presence" threshold
count_strong(existing_profiles, class, threshold) ==
    Cardinality({id \in DOMAIN existing_profiles :
                    get(existing_profiles[id], class, 0) > threshold})

strong_elements(existing_profiles) ==
    [bass   |-> count_strong(existing_profiles, "bass", 15),
     drums  |-> count_strong(existing_profiles, "drums", 20),
     vocals |-> count_strong(existing_profiles, "vocals", 15),
     piano  |-> count_strong(existing_profiles, "piano", 15),
     guitar |-> count_strong(existing_profiles, "guitar", 15),
     other  |-> count_strong(existing_profiles, "other", 25)]

bass_rule_never_tightens(s, new_profile, strong) ==
    IF get(new_profile, "bass", 0) > 20 /\ strong.bass > 0
    THEN IF has_effect_type(s.heap, s.effects, "hpf")
         THEN s
         ELSE append(s, [type |-> "hpf",
                         cutoff_hz |-> min(120 + (strong.bass * 20), 160)])
    ELSE s

\* 1. bass
bass_rule(s, new_profile, strong) ==
    IF get(new_profile, "bass", 0) > 20 /\ strong.bass > 0
    THEN LET cutoff_basse == min(120 + (strong.bass * 20), 160)
             idx == find_effect(s.heap, s.effects, "hpf")
         IN  IF has_effect_type(s.heap, s.effects, "hpf")
             THEN IF get(s.heap[s.effects[idx]], "cutoff_hz", 20) < 40
                  THEN setitem(s, idx, "cutoff_hz", cutoff_basse)
                  ELSE s
             ELSE append(s, [type |-> "hpf", cutoff_hz |-> cutoff_basse])
    ELSE s

drums_rule_stacks(s, new_profile, strong) ==
    IF get(new_profile, "drums", 0) > 25 /\ strong.drums > 0
    THEN LET s1 == IF ~has_effect_type(s.heap, s.effects, "lpf")
                   THEN append(s, [type |-> "lpf",
                                   cutoff_hz |-> 8000 - (strong.drums * 500)])
                   ELSE s
             reduction == -1000 * min(strong.drums, 2)
             vol == find_effect(s1.heap, s1.effects, "volume")
         IN  IF vol > 0
             THEN setitem(s1, vol, "gain",
                          get(s1.heap[s1.effects[vol]], "gain", 0) + reduction)
             ELSE append(s1, [type |-> "volume", gain |-> reduction])
    ELSE s

\* 2. drums: a low-pass if there is none, the kick exception (new_profile has
\* a "type" only if the caller put one), then the gain of the first volume
\* entry is overwritten, or a volume entry appended
drums_rule(s, new_profile, strong) ==
    IF get(new_profile, "drums", 0) > 25 /\ strong.drums > 0
    THEN LET s1 == IF ~has_effect_type(s.heap, s.effects, "lpf")
                   THEN append(s, [type |-> "lpf",
                                   cutoff_hz |-> 8000 - (strong.drums * 500)])
                   ELSE s
             hpf == find_effect(s1.heap, s1.effects, "hpf")
             s2 == IF /\ get(new_profile, "type", "") = "kick"
                      /\ hpf > 0
                      /\ get(s1.heap[s1.effects[hpf]], "cutoff_hz", 20) > 50
                   THEN setitem(s1, hpf, "cutoff_hz", 30)
                   ELSE s1
             reduction == -1000 * min(strong.drums, 2)
             vol == find_effect(s2.heap, s2.effects, "volume")
         IN  IF vol > 0
             THEN setitem(s2, vol, "gain", reduction)
             ELSE append(s2, [type |-> "volume", gain |-> reduction])
    ELSE s

\* 3. vocals
vocals_rule(s, new_profile, strong) ==
    IF /\ get(new_profile, "vocals", 0) > 20
       /\ strong.vocals > 0
       /\ ~has_effect_type(s.heap, s.effects, "reverb")
    THEN append(s, [type |-> "reverb", size |-> "large",
                    decay |-> min(30 + (strong.vocals * 5), 50),
                    wet |-> 4 + strong.vocals])
    ELSE s

\* 4. piano
piano_rule(s, new_profile, strong) ==
    IF /\ get(new_profile, "piano", 0) > 20
       /\ strong.piano > 0
       /\ ~has_effect_type(s.heap, s.effects, "lpf")
       /\ ~has_effect_type(s.heap, s.effects, "hpf")
    THEN append(append(s, [type |-> "hpf", cutoff_hz |-> 300]),
                [type |-> "lpf", cutoff_hz |-> 5000])
    ELSE s

\* 5. guitar (the pan suggestion is only printed)
guitar_rule(s, new_profile, strong) ==
    IF /\ get(new_profile, "guitar", 0) > 20
       /\ strong.guitar > 0
       /\ ~has_effect_type(s.heap, s.effects, "hpf")
    THEN append(s, [type |-> "hpf",
                    cutoff_hz |-> 500 + (strong.guitar * 100)])
    ELSE s

mid_freqs == <<200, 500, 1000, 2000, 4000>>

other_rule_at_threshold(s, new_profile, strong) ==
    IF /\ get(new_profile, "other", 0) >= 30
       /\ strong.other > 1
       /\ ~has_effect_type(s.heap, s.effects, "hpf")
       /\ ~has_effect_type(s.heap, s.effects, "lpf")
    THEN LET selected_low ==
                 mid_freqs[min(strong.other - 1, Len(mid_freqs) - 1) + 1]
         IN  append(append(s, [type |-> "hpf", cutoff_hz |-> selected_low]),
                    [type |-> "lpf", cutoff_hz |-> selected_low * 3])
    ELSE s

\* 6. other
other_rule(s, new_profile, strong) ==
    IF /\ get(new_profile, "other", 0) > 30
       /\ strong.other > 1
       /\ ~has_effect_type(s.heap, s.effects, "hpf")
       /\ ~has_effect_type(s.heap, s.effects, "lpf")
    THEN LET selected_low ==
                 mid_freqs[min(strong.other - 1, Len(mid_freqs) - 1) + 1]
             selected_high == selected_low * 3
         IN  append(append(s, [type |-> "hpf", cutoff_hz |-> selected_low]),
                    [type |-> "lpf", cutoff_hz |-> selected_high])
    ELSE s

total_energy(existing_profiles) ==
    sum_values([id \in DOMAIN existing_profiles |->
                   sum_values(existing_profiles[id])])

\* 7. global: the existing layers and the new one are tested separately
global_rule(s, new_profile, existing_profiles) ==
    LET total_energy_existing == total_energy(existing_profiles)
        total_energy_new == sum_values(new_profile)
        volume_reduction ==
            min(3000, (total_energy_existing + total_energy_new - 150) * 15)
        idx == find_effect(s.heap, s.effects, "volume")
    IN  IF total_energy_existing > 150 /\ total_energy_new > 80
        THEN IF has_effect_type(s.heap, s.effects, "volume")
             THEN setitem(s, idx, "gain",
                          get(s.heap[s.effects[idx]], "gain", 0)
                              - volume_reduction)
             ELSE append(s, [type |-> "volume", gain |-> -volume_reduction])
        ELSE s

rename_key_loses_value(effect, misspelt) ==
    IF misspelt \in DOMAIN effect
    THEN put(del(effect, misspelt), "threshold", 0)
    ELSE effect

\* effect["threshold"] = effect.pop(misspelt)
rename_key(effect, misspelt) ==
    IF misspelt \in DOMAIN effect
    THEN put(del(effect, misspelt), "threshold", effect[misspelt])
    ELSE effect

\* 8. the misspelt keys of the compression entries are renamed in the record
spelling_rule(s) ==
    [s EXCEPT !.heap =
        [a \in DOMAIN s.heap |->
            IF /\ \E i \in 1..Len(s.effects) : s.effects[i] = a
               /\ get(s.heap[a], "type", "") = "compression"
            THEN rename_key(rename_key(s.heap[a], "threshhold"), "thresshold")
            ELSE s.heap[a]]]

adjust_effects_without_early_return(heap, original_effects, new_profile, existing_profiles) ==
    LET effects == [heap |-> heap, effects |-> original_effects]
        strong == strong_elements(existing_profiles)
    IN  spelling_rule(
          global_rule(
            other_rule(
              guitar_rule(
                piano_rule(
                  vocals_rule(
                    drums_rule(
                      bass_rule(effects, new_profile, strong),
                      new_profile, strong),
                    new_profile, strong),
                  new_profile, strong),
                new_profile, strong),
              new_profile, strong),
            new_profile, existing_profiles))

\* the planner: the heap after the call and the list it returns. The copy of
\* line 249 is a new list of the same references; an absent list (None) and
\* an empty one both give the empty list
adjust_effects_for_layering(heap, original_effects, new_profile, existing_profiles) ==
    LET effects == [heap |-> heap, effects |-> original_effects]
        strong == strong_elements(existing_profiles)
    IN  IF DOMAIN existing_profiles = {}
        THEN effects
        ELSE spelling_rule(
               global_rule(
                 other_rule(
                   guitar_rule(
                     piano_rule(
                       vocals_rule(
                         drums_rule(
                           bass_rule(effects, new_profile, strong),
                           new_profile, strong),
                         new_profile, strong),
                       new_profile, strong),
                     new_profile, strong),
                   new_profile, strong),
                 new_profile, existing_profiles))

-----------------------------------------------------------------------------
(* A caller of the planner: it holds an effect list, a profile of the new   *)
(* sample and the profiles of the layers of the mix, and calls the planner  *)
(* with them, then once more with the same objects                          *)

MaxEffects == 2
MaxExisting == 2

\* effect records a decision may carry
EffectPool ==
    {[type |-> "hpf", cutoff_hz |-> 20],
     [type |-> "hpf", cutoff_hz |-> 80],
     [type |-> "lpf", cutoff_hz |-> 6000],
     [type |-> "volume", gain |-> 0],
     [type |-> "reverb", size |-> "small", decay |-> 10, wet |-> 2],
     [type |-> "compression", threshhold |-> -20, ratio |-> 4],
     [type |-> "delay", time |-> 3]}

EffectLists ==
    UNION {[1..n -> EffectPool] : n \in 0..MaxEffects}

\* profiles of a new sample: default profiles, a normalised four-stem
\* analysis, and a flat profile with no class above its threshold
NewProfiles ==
    {create_default_profile({"drum"}),
     create_default_profile({"bass"}),
     create_default_profile({"vocal"}),
     create_default_profile({"guitar"}),
     create_default_profile({"piano"}),
     create_default_profile({"pad"}),
     [drums |-> 30, bass |-> 35, other |-> 10, vocals |-> 25],
     [drums |-> 20, bass |-> 20, other |-> 30, vocals |-> 20]}

\* profiles of the layers of the mix: the default of a layer of unknown type,
\* the default of a bass, and a dense full-band profile
ExistingProfilePool ==
    {create_default_profile({}),
     create_default_profile({"bass"}),
     [drums |-> 30, bass |-> 25, other |-> 30, vocals |-> 25,
      guitar |-> 20, piano |-> 20]}

ExistingProfiles ==
    UNION {[1..n -> ExistingProfilePool] : n \in 0..MaxExisting}

PlanReady(effect_list, new_profile, existing_profiles) ==
    [pc |-> "ready",
     heap |-> effect_list,
     original_effects |-> [i \in 1..Len(effect_list) |-> i],
     new_profile |-> new_profile,
     existing_profiles |-> existing_profiles,
     before |-> effect_list,
     first |-> <<>>, first_value |-> <<>>,
     second |-> <<>>, second_value |-> <<>>]

InitPlan ==
    /\ InitSystem
    /\ plan \in {PlanReady(e, n, x) : e \in EffectLists, n \in NewProfiles,
                                      x \in ExistingProfiles}

\* adjusted_effects = self._adjust_effects_for_layering(effects_from_llm,
\* spectral_profile, existing_profiles); the caller keeps the list returned
\* and notes its value
PlanCall ==
    /\ plan.pc = "ready"
    /\ LET r == adjust_effects_for_layering(plan.heap, plan.original_effects,
                    plan.new_profile, plan.existing_profiles)
       IN  plan' = [plan EXCEPT !.pc = "called",
                                !.heap = r.heap,
                                !.first = r.effects,
                                !.first_value = deep_value(r.heap, r.effects)]
    /\ UNCHANGED sysvars

\* the same call again, with the same argument objects
PlanCallAgain ==
    /\ plan.pc = "called"
    /\ LET r == adjust_effects_for_layering(plan.heap, plan.original_effects,
                    plan.new_profile, plan.existing_profiles)
       IN  plan' = [plan EXCEPT !.pc = "called_twice",
                                !.heap = r.heap,
                                !.second = r.effects,
                                !.second_value = deep_value(r.heap, r.effects)]
    /\ UNCHANGED sysvars

\* the list the first call returned is passed back as the effect list, with
\* the same two profiles
PlanFeedBack ==
    /\ plan.pc = "called"
    /\ LET r == adjust_effects_for_layering(plan.heap, plan.first,
                    plan.new_profile, plan.existing_profiles)
       IN  plan' = [plan EXCEPT !.pc = "fed_back",
                                !.heap = r.heap,
                                !.second = r.effects,
                                !.second_value = deep_value(r.heap, r.effects)]
    /\ UNCHANGED sysvars

NextPlan ==
    \/ PlanCall
    \/ PlanCallAgain
    \/ PlanFeedBack

SpecPlan == InitPlan /\ [][NextPlan]_vars

-----------------------------------------------------------------------------
(* DJSystem._analyze_sample_with_demucs and the analysis phase of an        *)
(* add_replace (_process_dj_decision, phases 2 to 5). A profile of the      *)
(* estimator holds quotients of energies: a profile is kept as its values   *)
(* and the unit they are counted in (value = values[class] / unit), which   *)
(* is exact. Raw energies are in hundredths: the 0.01 of an unreadable stem *)
(* is 1.                                                                    *)

Stems == {"drums", "bass", "other", "vocals"}

\* a default profile, in hundredths
in_hundredths(profile) == [values |-> profile, unit |-> 100]

\* the stems that have a file, and those of them librosa can load
stems_found(stem_files) == {stem \in Stems : stem_files[stem].exists}
stems_loaded(stem_files) == {stem \in stems_found(stem_files) : stem_files[stem].readable}

stem_energy_unnormalised(stem_files) ==
    [stem \in stems_found(stem_files) |->
        IF stem_files[stem].readable THEN stem_files[stem].energy ELSE 1]

\* total_energy: the energies of the stems that were loaded
total_stem_energy(stem_files) ==
    sum_values([stem \in stems_loaded(stem_files) |-> stem_files[stem].energy])

\* the profile of a separation that ran: every value is divided by
\* total_energy when total_energy > 0, and left as it is otherwise
stem_energy(stem_files) ==
    IF total_stem_energy(stem_files) > 0
    THEN [values |-> stem_energy_unnormalised(stem_files),
          unit |-> total_stem_energy(stem_files)]
    ELSE in_hundredths(stem_energy_unnormalised(stem_files))

\* what _analyze_sample_with_demucs returns: the profile, and whether there
\* is a directory of stems (separated_path, else None); when the process
\* fails or its directory is missing, the profile is
\* _create_default_profile(os.path.basename(sample_path))
analyze_sample_with_demucs(file_name, demucs) ==
    IF demucs.kind \in {"exit_nonzero", "no_directory"}
    THEN [profile |-> in_hundredths(create_default_profile(file_name)),
          separated |-> FALSE]
    ELSE [profile |-> stem_energy(demucs.stem_files), separated |-> TRUE]

\* the file names of the generated sample, f"{layer_id}_orig_{time}.wav", as
\* the markers they contain (those of the layer id)
FileNames == {{}, {"bass"}, {"kick"}}

\* the declared types of a sample, as the markers they contain
SampleTypes ==
    {{}, {"kick"}, {"bass"}, {"vocal"}, {"guitar"}, {"piano"}, {"pad"}, {"fx"},
     {"bass", "drum"}}

\* a stem of the separation: no file, a file that cannot be loaded, or a file
\* with its energy (silent, 0.5, 20)
StemFiles ==
    {[exists |-> FALSE, readable |-> FALSE, energy |-> 0],
     [exists |-> TRUE, readable |-> FALSE, energy |-> 0]}
    \cup [exists : {TRUE}, readable : {TRUE}, energy : {0, 50, 2000}]

\* what the separation does: the process exits non-zero, its directory is
\* missing, something in the analysis phase raises, or it leaves stems
DemucsOutcomes ==
    {[kind |-> "exit_nonzero"], [kind |-> "no_directory"], [kind |-> "raises"]}
    \cup [kind : {"separated"}, stem_files : [Stems -> StemFiles]]

NoProfile == in_hundredths(EmptyDict)

\* the layers of the mix when the decision is processed, with the profile
\* kept with each (layer.spectral_profile)
Mixes ==
    {EmptyDict,
     put(EmptyDict, 1, create_default_profile({"bass"})),
     put(put(EmptyDict, 1, create_default_profile({})),
         2, create_default_profile({"bass"}))}

\* the id of the decision: that of a layer of the mix, or a new one
AddedIds == {1, 3}

\* phase 4: existing_profiles holds the profile of every layer of
\* layer_manager.layers
existing_profiles_of(mix, layer_id) == mix

InitProfile ==
    /\ InitSystem
    /\ plan \in [pc : {"generated"}, sample_type : SampleTypes,
                 file_name : FileNames, demucs : DemucsOutcomes,
                 layer_id : AddedIds, mix : Mixes,
                 existing_profiles : {EmptyDict},
                 spectral_profile : {NoProfile}, planner_ran : {FALSE},
                 manage_layer_called : {FALSE}, layer_profile : {NoProfile}]

\* phases 2 to 4: the analysis, then the planner; an exception anywhere in
\* them is caught, the effects stay those of the decision and the profile
\* is _create_default_profile(sample_type)
AnalyseSample ==
    /\ plan.pc = "generated"
    /\ LET r == analyze_sample_with_demucs(plan.file_name, plan.demucs)
       IN  plan' = IF plan.demucs.kind = "raises"
                   THEN [plan EXCEPT
                           !.pc = "analysed",
                           !.spectral_profile = in_hundredths(
                               create_default_profile(plan.sample_type))]
                   ELSE [plan EXCEPT
                           !.pc = "analysed",
                           !.spectral_profile = r.profile,
                           !.existing_profiles =
                               existing_profiles_of(plan.mix, plan.layer_id),
                           !.planner_ran = TRUE]
    /\ UNCHANGED sysvars

\* phase 5: manage_layer is called; if the layer is in the mapping afterwards
\* (the add was accepted) the profile is stored with it
ManageAnalysedSample ==
    /\ plan.pc = "analysed"
    /\ \E accepted \in BOOLEAN :
          plan' = [plan EXCEPT
                     !.pc = "managed",
                     !.manage_layer_called = TRUE,
                     !.layer_profile = IF accepted THEN plan.spectral_profile
                                       ELSE NoProfile]
    /\ UNCHANGED sysvars

NextProfile ==
    \/ AnalyseSample
    \/ ManageAnalysedSample

SpecProfile == InitProfile /\ [][NextProfile]_vars

-----------------------------------------------------------------------------
(* AudioLayerSync: the buffer that is played (audio_data). A channel of the *)
(* buffer is kept as the factor by which it multiplies the same channel of  *)
(* the file, an exact fraction in lowest terms.                             *)

RECURSIVE gcd(_, _)
gcd(a, b) == IF b = 0 THEN a ELSE gcd(b, a % b)

fraction(num, den) ==
    IF num = 0 THEN [num |-> 0, den |-> 1]
    ELSE [num |-> num \div gcd(num, den), den |-> den \div gcd(num, den)]

\* channel *= hundredths / 100
scaled(channel, hundredths) ==
    fraction(channel.num * hundredths, channel.den * 100)

\* sf.read(file_path, always_2d=True), a mono file tiled to two channels
original_data == [left |-> fraction(1, 1), right |-> fraction(1, 1)]

apply_volume_and_pan_swapped(audio_data, volume, pan) ==
    LET panned == IF pan > 0
                  THEN [audio_data EXCEPT !.right = scaled(@, 100 - pan)]
                  ELSE IF pan < 0
                  THEN [audio_data EXCEPT !.left = scaled(@, 100 + pan)]
                  ELSE audio_data
    IN  [left |-> scaled(panned.left, volume),
         right |-> scaled(panned.right, volume)]

\* _apply_volume_and_pan() on a loaded layer: the pan attenuates the left
\* channel (pan > 0) or the right one (pan < 0) of audio_data, then both are
\* multiplied by the volume
apply_volume_and_pan(audio_data, volume, pan) ==
    LET panned == IF pan > 0
                  THEN [audio_data EXCEPT !.left = scaled(@, 100 - pan)]
                  ELSE IF pan < 0
                  THEN [audio_data EXCEPT !.right = scaled(@, 100 + pan)]
                  ELSE audio_data
    IN  [left |-> scaled(panned.left, volume),
         right |-> scaled(panned.right, volume)]

set_pan_on_buffer(audio_data, volume, pan) ==
    apply_volume_and_pan(audio_data, volume, pan)

\* the buffer of set_pan(): the file is read again into audio_data, whatever
\* the buffer was, then _apply_volume_and_pan()
set_pan_buffer(audio_data, volume, pan) ==
    apply_volume_and_pan(original_data, volume, pan)

\* the calls made on one layer
MaxCalls == 3

\* the volumes and pans of a call, some of them outside the range
Volumes == {0, 50, 100, 150}
Pans == {-150, -50, 0, 50}

\* the volumes and pans a layer is constructed with
InitVolumes == {50, 90, 150}
InitPans == {-50, 0, 150}

\* a layer as its constructor leaves it when the file loads: the buffer is
\* the file with volume and pan applied once; calls is the history of the
\* calls made on the layer since
InitBuffer ==
    /\ InitSystem
    /\ \E volume \in InitVolumes, pan \in InitPans :
          LET layer == AudioLayerSync(1, volume, pan, TRUE)
          IN  plan = [layer |-> layer, calls |-> <<>>,
                      audio_data |-> apply_volume_and_pan(
                          original_data, layer.volume, layer.pan)]

\* set_volume(volume): the new volume, then _apply_volume_and_pan() on the
\* buffer as it is
SetVolume ==
    /\ Len(plan.calls) < MaxCalls
    /\ \E volume \in Volumes :
          LET layer == set_volume(plan.layer, volume)
          IN  plan' = [layer |-> layer,
                       calls |-> Append(plan.calls,
                                        [op |-> "set_volume", arg |-> volume]),
                       audio_data |-> apply_volume_and_pan(
                           plan.audio_data, layer.volume, layer.pan)]
    /\ UNCHANGED sysvars

\* set_pan(pan): the file is read again, then the new pan and
\* _apply_volume_and_pan()
SetPan ==
    /\ Len(plan.calls) < MaxCalls
    /\ \E pan \in Pans :
          LET layer == set_pan(plan.layer, pan)
          IN  plan' = [layer |-> layer,
                       calls |-> Append(plan.calls,
                                        [op |-> "set_pan", arg |-> pan]),
                       audio_data |-> set_pan_buffer(
                           plan.audio_data, layer.volume, layer.pan)]
    /\ UNCHANGED sysvars

NextBuffer ==
    \/ SetVolume
    \/ SetPan

SpecBuffer == InitBuffer /\ [][NextBuffer]_vars

-----------------------------------------------------------------------------
(* AudioLayerSync objects on the clock: play(), stop() and on_midi_event()  *)
(* statement by statement, the clock thread delivering events while another *)
(* thread releases layers. The clock itself (add_listener, remove_listener, *)
(* the delivery of an event to its listeners) is that of the design         *)
(* document, section 6.                                                     *)

LayerObjects == 1..2

\* a file path, as whether its directory part and its file name contain one
\* of the markers "_loop_", "_fx_", "temp_", "_orig_"
FilePaths ==
    {[dir_marked |-> FALSE, name_marked |-> FALSE],
     [dir_marked |-> FALSE, name_marked |-> TRUE],
     [dir_marked |-> TRUE, name_marked |-> FALSE]}

is_temp_file_by_name(file_path) == file_path.name_marked

\* any(marker in self.file_path for marker in [...]): the whole path is
\* searched
is_temp_file(file_path) == file_path.dir_marked \/ file_path.name_marked

\* stop(): self.is_armed = False
stop_disarm(layer) == [layer EXCEPT !.is_armed = FALSE]

\* stop(): self.midi_manager.remove_listener(self)
stop_remove_listener(layer) == [layer EXCEPT !.subscribed = FALSE]

remove_all_listeners(objs, i) ==
    [j \in DOMAIN objs |-> stop_remove_listener(objs[j])]

\* the listeners of the clock after remove_listener(self) by the object i
remove_listener(objs, i) == [objs EXCEPT ![i] = stop_remove_listener(@)]

play_error_disarms(layer) == [layer EXCEPT !.is_armed = FALSE]

\* on_midi_event(): except Exception prints the error, the layer is as it was
play_error(layer) == layer

ClockIdle ==
    [pc |-> "idle", event |-> "none", previous |-> "none",
     hundredth |-> FALSE, listeners |-> {}, todo |-> {}, cur |-> 0,
     late |-> FALSE]

StopIdle == [pc |-> "idle", layer |-> 0, cleanup |-> FALSE]

\* each object is constructed on a file of some path; the load fails when the
\* file is missing or cannot be decoded
InitLayer ==
    /\ InitSystem
    /\ \E file_path \in [LayerObjects -> FilePaths], load_ok \in [LayerObjects -> BOOLEAN], missing \in SUBSET LayerObjects :
          /\ \A i \in missing : ~load_ok[i]
          /\ file_path[2] = [dir_marked |-> FALSE, name_marked |-> TRUE]
          /\ plan = [objs |-> [i \in LayerObjects |->
                                  AudioLayerSync(i, 90, 0, load_ok[i])],
                     file_path |-> file_path,
                     file_exists |-> [i \in LayerObjects |-> i \notin missing],
                     life |-> [i \in LayerObjects |-> "new"],
                     cleanup |-> [i \in LayerObjects |-> "none"],
                     stopping |-> StopIdle,
                     clock |-> ClockIdle,
                     sounding |-> 0,
                     attempts |-> [i \in LayerObjects |-> 0],
                     rejected |-> {},
                     rejected_before |-> {}]

\* play()
Arm(i) ==
    /\ plan.life[i] = "new"
    /\ plan' = [plan EXCEPT !.objs[i] = play(@), !.life[i] = "played"]
    /\ UNCHANGED sysvars

\* stop(fadeout_ms, cleanup) is called; its first statement
StopDisarm(i) ==
    /\ plan.stopping.pc = "idle"
    /\ plan.life[i] \in {"new", "played"}
    /\ \E cleanup \in BOOLEAN :
          plan' = [plan EXCEPT
                     !.objs[i] = stop_disarm(@),
                     !.life[i] = "releasing",
                     !.stopping = [pc |-> "disarmed", layer |-> i,
                                   cleanup |-> cleanup]]
    /\ UNCHANGED sysvars

StopRemoveListener ==
    /\ plan.stopping.pc = "disarmed"
    /\ plan' = [plan EXCEPT
                  !.objs = remove_listener(@, plan.stopping.layer),
                  !.stopping.pc = "unlistened"]
    /\ UNCHANGED sysvars

\* stop(): sd.stop()
StopDevice ==
    /\ plan.stopping.pc = "unlistened"
    /\ plan' = [plan EXCEPT !.sounding = 0, !.stopping.pc = "halted"]
    /\ UNCHANGED sysvars

\* stop(): the file is removed if cleanup was asked, the file exists and its
\* path holds a marker; os.remove may fail, which is printed
StopCleanup ==
    /\ plan.stopping.pc = "halted"
    /\ LET i == plan.stopping.layer
       IN  IF plan.stopping.cleanup /\ plan.file_exists[i]
              /\ is_temp_file(plan.file_path[i])
           THEN \E removed \in BOOLEAN :
                   plan' = [plan EXCEPT
                              !.file_exists[i] = ~removed,
                              !.cleanup[i] = IF removed THEN "removed"
                                             ELSE "failed",
                              !.life[i] = "released",
                              !.stopping = StopIdle]
           ELSE plan' = [plan EXCEPT
                           !.cleanup[i] = IF plan.stopping.cleanup
                                          THEN "skipped" ELSE "not_asked",
                           !.life[i] = "released",
                           !.stopping = StopIdle]
    /\ UNCHANGED sysvars

\* the clock has an event for its listeners; hundredth: the measure number
\* is a multiple of 100
Dispatch ==
    /\ plan.clock.pc = "idle"
    /\ \E event_type \in {"measure_start", "stop"}, hundredth \in BOOLEAN :
          /\ hundredth => event_type = "measure_start"
          /\ LET listeners == {i \in LayerObjects : plan.objs[i].subscribed}
             IN  plan' = [plan EXCEPT
                     !.clock = [pc |-> "dispatch", event |-> event_type,
                                previous |-> plan.clock.event,
                                hundredth |-> hundredth,
                                listeners |-> listeners, todo |-> listeners,
                                cur |-> 0, late |-> FALSE],
                     !.attempts = IF event_type = "measure_start"
                                  THEN [i \in LayerObjects |-> 0] ELSE @,
                     !.rejected = IF event_type = "measure_start" THEN {} ELSE @,
                     !.rejected_before = IF event_type = "measure_start"
                                         THEN plan.rejected ELSE @]
    /\ UNCHANGED sysvars

\* on_midi_event() is called on a listener: the test of is_armed, and, every
\* 100 measures, the sd.stop() before the try; "stop" halts the device
Deliver(i) ==
    /\ plan.clock.pc = "dispatch"
    /\ i \in plan.clock.todo
    /\ plan' =
          IF triggers(plan.objs[i], plan.clock.event)
          THEN [plan EXCEPT
                  !.clock.pc = "trigger", !.clock.cur = i,
                  !.clock.todo = @ \ {i},
                  !.clock.late = plan.life[i] \in {"releasing", "released"},
                  !.sounding = IF plan.clock.hundredth THEN 0 ELSE @]
          ELSE [plan EXCEPT
                  !.clock.todo = @ \ {i},
                  !.sounding = IF plan.clock.event = "stop" THEN 0 ELSE @]
    /\ UNCHANGED sysvars

\* the try: sd.stop(), sd.wait(), sd.play(); the device may reject the play
Trigger ==
    /\ plan.clock.pc = "trigger"
    /\ LET i == plan.clock.cur
       IN  \E played \in BOOLEAN :
              plan' = [plan EXCEPT
                         !.clock.pc = "dispatch",
                         !.attempts[i] = @ + 1,
                         !.sounding = IF played THEN i ELSE 0,
                         !.objs[i] = IF played THEN @ ELSE play_error(@),
                         !.rejected = IF played THEN @ ELSE @ \cup {i}]
    /\ UNCHANGED sysvars

\* every listener has been called
DispatchDone ==
    /\ plan.clock.pc = "dispatch"
    /\ plan.clock.todo = {}
    /\ plan' = [plan EXCEPT !.clock.pc = "idle", !.clock.cur = 0,
                            !.clock.late = FALSE]
    /\ UNCHANGED sysvars

NextLayer ==
    \/ \E i \in LayerObjects : Arm(i)
    \/ \E i \in LayerObjects : StopDisarm(i)
    \/ StopRemoveListener
    \/ StopDevice
    \/ StopCleanup
    \/ Dispatch
    \/ \E i \in LayerObjects : Deliver(i)
    \/ Trigger
    \/ DispatchDone

SpecLayer == InitLayer /\ [][NextLayer]_vars

-----------------------------------------------------------------------------
(* Steps of the decision thread, as seen from a pair of states *)

\* the step that carries out the manage_layer call of the current decision
Called(operation) ==
    pc = "manage" /\ pc' # "manage" /\ cur.operation = operation

\* any step of the decision thread while it processes the current decision
Processing(operation) ==
    pc \in {"manage", "update", "evict"} /\ pc' # pc /\ cur.operation = operation

\* C2: an add_replace of an id that is not in the mapping, called while the
\* mapping holds max_concurrent_layers layers, does not change the mapping and
\* calls the capacity callback exactly once, with the ids of the layers then
\* active, which handle_max_layers hands to the decision source
C2_RejectionNotifiesOnce ==
    [][(/\ Called("add_replace")
        /\ cur.layer_id \notin DOMAIN layers
        /\ Cardinality(DOMAIN layers) = max_concurrent_layers)
       => /\ layers' = layers
          /\ Len(notified') = 1
          /\ notified'[1] = DOMAIN layers
          /\ Cardinality(notified'[1]) = max_concurrent_layers
          /\ session_state'.need_layer_removal
          /\ session_state'.layers_to_choose_from = DOMAIN layers]_vars

\* a rejection has just notified the decision system of the three active ids
C2_Witness ==
    /\ pc = "update"
    /\ cur.operation = "add_replace"
    /\ cur.layer_id \notin DOMAIN layers
    /\ Len(notified) = 1
    /\ notified[1] = DOMAIN layers
    /\ session_state.layers_to_choose_from = DOMAIN layers
    /\ Cardinality(DOMAIN layers) = max_concurrent_layers

\* C3 (as stated): while a rejected add_replace is processed, up to the end of
\* that decision, the mapping keeps its layers: nothing is evicted for it
C3_RejectedAddEvictsNothing ==
    [][(/\ Processing("add_replace")
        /\ (session_state.need_layer_removal \/ session_state'.need_layer_removal))
       => layers' = layers]_vars

Replaces ==
    /\ released' = {[layer_id |-> cur.layer_id, is_armed |-> FALSE,
                     subscribed |-> FALSE]}
    /\ DOMAIN layers' = DOMAIN layers
    /\ \A id \in DOMAIN layers \ {cur.layer_id} : layers'[id] = layers[id]
    /\ layers'[cur.layer_id].layer_id = cur.layer_id
    /\ layers'[cur.layer_id].volume =
          (get(cur.playback_params, "volume", 90) * 8) \div 10
    /\ layers'[cur.layer_id].pan = get(cur.playback_params, "pan", 0)
    /\ notified' = <<>>
    /\ session_state' = session_state

IsReplacement == Called("add_replace") /\ cur.layer_id \in DOMAIN layers

\* C5 (as stated): add_replace of an id of the mapping is never rejected: the
\* old layer is released, a new one is installed under the id and armed
C5_ReplaceInstallsArmed ==
    [][IsReplacement
       => /\ Replaces
          /\ layers'[cur.layer_id].is_armed
          /\ layers'[cur.layer_id].subscribed]_vars

\* C5 (amended): add_replace of an id of the mapping is never rejected, however
\* full the mapping: the old layer is released and a new one is installed
\* under the id; the new layer is armed and listens to the clock if its file
\* loaded, and is neither armed nor a listener if it did not
C5_ReplaceInstalls ==
    [][IsReplacement
       => /\ Replaces
          /\ layers'[cur.layer_id].loaded = cur.load_ok
          /\ layers'[cur.layer_id].is_armed = cur.load_ok
          /\ layers'[cur.layer_id].subscribed = cur.load_ok]_vars

\* a layer of a full mix has just been replaced, and the new one is armed
C5_Witness ==
    /\ pc = "update"
    /\ cur.operation = "add_replace"
    /\ cur.layer_id \in DOMAIN layers
    /\ Cardinality(DOMAIN layers) = max_concurrent_layers
    /\ released = {[layer_id |-> cur.layer_id, is_armed |-> FALSE,
                    subscribed |-> FALSE]}
    /\ layers[cur.layer_id].is_armed

\* C6: processing a modify changes, at most, the gain and the pan of the layer
\* it names: the key set, every other layer, the armed, loaded and listener
\* status of the layer itself, and the marks for the next bar stay as they
\* are, nothing is released and nothing notified; with an id that is not in
\* the mapping, nothing changes at all
C6_ModifyInPlace ==
    [][Processing("modify")
       => /\ DOMAIN layers' = DOMAIN layers
          /\ \A id \in DOMAIN layers :
                /\ id # cur.layer_id => layers'[id] = layers[id]
                /\ layers'[id].layer_id = layers[id].layer_id
                /\ layers'[id].is_armed = layers[id].is_armed
                /\ layers'[id].subscribed = layers[id].subscribed
                /\ layers'[id].loaded = layers[id].loaded
          /\ pending_removals' = pending_removals
          /\ released' = {}
          /\ notified' = <<>>
          /\ session_state' = session_state
          /\ cur.layer_id \notin DOMAIN layers => layers' = layers]_vars

\* a modify has just set the gain and the pan of an armed layer
C6_Witness ==
    /\ pc = "update"
    /\ cur.operation = "modify"
    /\ cur.layer_id \in DOMAIN layers
    /\ layers[cur.layer_id].volume = 40
    /\ layers[cur.layer_id].pan = -50
    /\ layers[cur.layer_id].is_armed

\* C7: stop_all_layers (called by stop_session) leaves the mapping empty and
\* releases every layer that was in it - none is armed or a listener any more
\* - whatever layers were marked for the next bar
C7_StopAllLayers ==
    [][(session_running /\ ~session_running')
       => /\ layers' = EmptyDict
          /\ pending_removals' = {}
          /\ {r.layer_id : r \in released'} = DOMAIN layers
          /\ \A r \in released' : ~r.is_armed /\ ~r.subscribed]_vars

\* the session was stopped with a full mix of armed layers
C7_Witness ==
    /\ ~session_running
    /\ layers = EmptyDict
    /\ Cardinality(released) = max_concurrent_layers
    /\ \A r \in released : ~r.is_armed /\ ~r.subscribed

\* C8 (as stated): the clock's event handling and the calls that change the
\* mapping exclude each other, so that a "measure_start" starts the buffers
\* of layers of the mapping only
C8_BeatsStartOnlyMappedLayers == started \subseteq DOMAIN layers

\* C9 (as stated): after the planner returns, the caller's effect list and
\* every record in it are deep-equal to what they were before the call
C9_CallerListUntouched ==
    plan.pc \in {"called", "called_twice"}
        => deep_value(plan.heap, plan.original_effects) = plan.before

\* C10 (as stated): the list the planner returns when it is called again with
\* the same argument objects is deep-equal to the list the first call returned
C10_SecondCallSameOutput ==
    plan.pc = "called_twice" => plan.second_value = plan.first_value

-----------------------------------------------------------------------------
(* The planner's conditions, as the claims about it name them *)

\* the drums rule applies: the new sample's drums are significant and a layer
\* of the mix has a strong drums presence
DrumsRuleApplies ==
    /\ get(plan.new_profile, "drums", 0) > 25
    /\ strong_elements(plan.existing_profiles).drums > 0

\* the global trim applies, and the reduction it makes
TrimApplies ==
    /\ DOMAIN plan.existing_profiles # {}
    /\ total_energy(plan.existing_profiles) > 150
    /\ sum_values(plan.new_profile) > 80

TrimReduction ==
    min(3000, (total_energy(plan.existing_profiles)
                 + sum_values(plan.new_profile) - 150) * 15)

\* the list l with the gain of its first volume entry lowered by r
WithGainLowered(l, r) ==
    LET vol == CHOOSE i \in 1..Len(l) :
                   /\ get(l[i], "type", "") = "volume"
                   /\ \A j \in 1..(i - 1) : get(l[j], "type", "") # "volume"
    IN  [l EXCEPT ![vol] = put(@, "gain", get(@, "gain", 0) - r)]

\* C11 (as stated): the planner's output passed back as the effect list, with
\* the same profiles, comes back deep-equal
C11_FixedPoint ==
    plan.pc = "fed_back" => plan.second_value = plan.first_value

\* C11 (amended): the planner's output passed back as the effect list comes
\* back with the same entries in the same order and no entry added; every
\* value is the same, except that, when the global trim applies and the drums
\* rule does not, the gain of the first volume entry is lowered once more by
\* the trim's reduction
C11_FixedPointButTrim ==
    plan.pc = "fed_back"
        => plan.second_value =
              IF TrimApplies /\ ~DrumsRuleApplies
              THEN WithGainLowered(plan.first_value, TrimReduction)
              ELSE plan.first_value

\* an output to which the planner had added entries came back unchanged
C11_Witness ==
    /\ plan.pc = "fed_back"
    /\ Len(plan.first) > Len(plan.original_effects)
    /\ DrumsRuleApplies
    /\ TrimApplies
    /\ plan.second_value = plan.first_value

\* the list out keeps every entry of the list in at its index, with its type
KeepsChain(in, out) ==
    /\ Len(out) >= Len(in)
    /\ \A i \in 1..Len(in) : get(out[i], "type", "") = get(in[i], "type", "")

\* C12: the planner's output is at least as long as the effect list it was
\* given and holds, at every index of that list, an entry of the same type
\* (the same record, in fact): what the planner adds comes after them
C12_NeverShrinksOrReorders ==
    /\ plan.pc # "ready"
          => /\ KeepsChain(plan.before, plan.first_value)
             /\ SubSeq(plan.first, 1, Len(plan.original_effects))
                   = plan.original_effects
    /\ plan.pc = "called_twice"
          => /\ KeepsChain(plan.before, plan.second_value)
             /\ SubSeq(plan.second, 1, Len(plan.original_effects))
                   = plan.original_effects
    /\ plan.pc = "fed_back"
          => /\ KeepsChain(plan.first_value, plan.second_value)
             /\ SubSeq(plan.second, 1, Len(plan.first)) = plan.first

\* the planner has added entries to a list of two effects, and rewritten a
\* value of one of the two
C12_Witness ==
    /\ plan.pc = "called"
    /\ Len(plan.original_effects) = 2
    /\ Len(plan.first) > 3
    /\ plan.first_value # plan.before \o SubSeq(plan.first_value, 3, Len(plan.first))

\* the types of effect the corrective rules act on
RuleTypes == {"hpf", "lpf", "reverb", "volume"}

\* the entries of the caller's list that are of no such type
OtherEntries ==
    {i \in 1..Len(plan.before) : get(plan.before[i], "type", "") \notin RuleTypes}

\* an effect with the key "threshold" in place of its misspelt forms
WithThresholdSpelt(effect) ==
    LET misspelt == {"threshhold", "thresshold"} \cap DOMAIN effect
    IN  IF misspelt = {} THEN effect
        ELSE [k \in ((DOMAIN effect) \ misspelt) \cup {"threshold"} |->
                 IF k # "threshold" THEN effect[k]
                 ELSE IF "thresshold" \in misspelt THEN effect["thresshold"]
                 ELSE effect["threshhold"]]

\* C13 (as stated): a caller's effect of a type no corrective rule acts on is
\* in the planner's output with exactly the keys and values it had
C13_OtherTypesVerbatim ==
    plan.pc = "called"
        => \A i \in OtherEntries : plan.first_value[i] = plan.before[i]

\* C13 (amended): a caller's effect of a type no corrective rule acts on is
\* in the planner's output, at its index, with the keys and values it had,
\* except that, when the mix is not empty, a compression entry has its key
\* "threshhold" or "thresshold" renamed "threshold", with the value kept
C13_OtherTypesButSpelling ==
    plan.pc = "called"
        => \A i \in OtherEntries :
              plan.first_value[i] =
                 IF /\ plan.before[i].type = "compression"
                    /\ DOMAIN plan.existing_profiles # {}
                 THEN WithThresholdSpelt(plan.before[i])
                 ELSE plan.before[i]

\* the planner, with rules applying, returned a compression entry with its
\* key respelt and an entry of unknown type as it was
C13_Witness ==
    /\ plan.pc = "called"
    /\ Len(plan.first) > Len(plan.original_effects)
    /\ \E i, j \in OtherEntries :
          /\ plan.before[i].type = "compression"
          /\ "threshhold" \in DOMAIN plan.before[i]
          /\ DOMAIN plan.first_value[i] = {"type", "threshold", "ratio"}
          /\ plan.first_value[i].threshold = plan.before[i].threshhold
          /\ plan.before[j].type = "delay"
          /\ plan.first_value[j] = plan.before[j]

\* the bass rule applies: the new sample's bass is significant and a layer of
\* the mix has a strong bass presence
BassRuleApplies ==
    /\ get(plan.new_profile, "bass", 0) > 20
    /\ \E id \in DOMAIN plan.existing_profiles :
           get(plan.existing_profiles[id], "bass", 0) > 15

\* the high-pass entries of a list of effects
HighPasses(l) == {i \in 1..Len(l) : get(l[i], "type", "") = "hpf"}

\* the caller's list holds a high-pass entry, and the first one has a cutoff
\* of 40 Hz or more
CallerHighPassKept ==
    /\ HighPasses(plan.before) # {}
    /\ \E i \in HighPasses(plan.before) :
          /\ \A j \in HighPasses(plan.before) : i <= j
          /\ get(plan.before[i], "cutoff_hz", 20) >= 40

\* C14 (as stated): when the bass rule applies the output holds a high-pass
\* entry with a cutoff of 120 Hz or more, whatever the caller's list
C14_BassGetsHighPass ==
    (plan.pc = "called" /\ BassRuleApplies)
        => \E i \in HighPasses(plan.first_value) :
               plan.first_value[i].cutoff_hz >= 120

\* C14 (amended): when the bass rule applies and the caller's list holds no
\* high-pass entry, or its first one has a cutoff below 40 Hz, the output
\* holds a high-pass entry with a cutoff of 120 Hz or more (120 + 20 per
\* layer with strong bass, at most 160); when the caller's first high-pass
\* entry has a cutoff of 40 Hz or more, every high-pass entry of the caller
\* is returned as it was and the planner adds none
C14_BassHighPassUnlessKept ==
    (plan.pc = "called" /\ BassRuleApplies)
        => IF CallerHighPassKept
           THEN /\ HighPasses(plan.first_value) = HighPasses(plan.before)
                /\ \A i \in HighPasses(plan.before) :
                       plan.first_value[i] = plan.before[i]
           ELSE \E i \in HighPasses(plan.first_value) :
                   /\ plan.first_value[i].cutoff_hz >= 120
                   /\ plan.first_value[i].cutoff_hz =
                         min(120 + 20 * strong_elements(plan.existing_profiles).bass, 160)

\* Scenario A: two layers with strong bass, a new sample with bass 0.35, and
\* a caller's high-pass at 20 Hz, which comes back at 160 Hz
C14_Witness ==
    /\ plan.pc = "called"
    /\ BassRuleApplies
    /\ strong_elements(plan.existing_profiles).bass = 2
    /\ plan.new_profile.bass = 35
    /\ \E i \in HighPasses(plan.before) :
          plan.before[i].cutoff_hz = 20 /\ plan.first_value[i].cutoff_hz = 160

\* the new profile has no class above its "significant" threshold
NoSignificantClass ==
    /\ \A class \in {"bass", "vocals", "piano", "guitar"} :
           get(plan.new_profile, class, 0) <= 20
    /\ get(plan.new_profile, "drums", 0) <= 25
    /\ get(plan.new_profile, "other", 0) <= 30

\* the caller's list with the keys of its compression entries respelt
BeforeRespelt ==
    [i \in 1..Len(plan.before) |->
        IF get(plan.before[i], "type", "") = "compression"
        THEN WithThresholdSpelt(plan.before[i])
        ELSE plan.before[i]]

\* a list of effects after the global trim by r: the gain of its first volume
\* entry lowered, or a volume entry added at its end
Trimmed(l, r) ==
    IF \E i \in 1..Len(l) : get(l[i], "type", "") = "volume"
    THEN WithGainLowered(l, r)
    ELSE Append(l, [type |-> "volume", gain |-> -r])

\* C15 (as stated): for a new profile with no class above its threshold the
\* planner returns a list deep-equal to the caller's
C15_QuietProfileUnchanged ==
    (plan.pc = "called" /\ NoSignificantClass)
        => plan.first_value = plan.before

\* C15 (amended): for a new profile with no class above its threshold, no
\* corrective rule adds or changes an entry. With an empty mix the output is
\* deep-equal to the caller's list; otherwise it is the caller's list with
\* the misspelt threshold keys of its compression entries renamed and, when
\* the global trim applies (existing total > 1.5 and new total > 0.8), with
\* the trim's reduction taken off the first volume entry, or a volume entry
\* of that reduction appended
C15_QuietProfileButTrimAndSpelling ==
    (plan.pc = "called" /\ NoSignificantClass)
        => plan.first_value =
              IF DOMAIN plan.existing_profiles = {} THEN plan.before
              ELSE IF TrimApplies THEN Trimmed(BeforeRespelt, TrimReduction)
              ELSE BeforeRespelt

\* a flat profile planned against two layers strong in every class it holds,
\* without trim: the caller's two effects come back as they were
C15_Witness ==
    /\ plan.pc = "called"
    /\ NoSignificantClass
    /\ ~TrimApplies
    /\ strong_elements(plan.existing_profiles).other > 0
    /\ Len(plan.before) = 2
    /\ plan.first_value = plan.before

\* C16: with no existing profile the planner returns a list deep-equal to the
\* caller's (the empty list for an empty one), whatever the new profile: no
\* entry is added, no record is written, no key is renamed, on the first call
\* and on a repeated one
C16_EmptyMixReturnsCopy ==
    (plan.pc # "ready" /\ DOMAIN plan.existing_profiles = {})
        => /\ plan.first_value = plan.before
           /\ plan.first = plan.original_effects
           /\ plan.heap = plan.before
           /\ plan.pc # "called" => plan.second_value = plan.before
           /\ Len(plan.before) = 0 => plan.first_value = <<>>

\* a list with a misspelt compression entry and a volume entry came back as
\* it was for a bass sample planned against an empty mix
C16_Witness ==
    /\ plan.pc = "called"
    /\ DOMAIN plan.existing_profiles = {}
    /\ plan.new_profile.bass = 70
    /\ Len(plan.before) = 2
    /\ plan.before[1].type = "compression"
    /\ plan.before[2].type = "volume"
    /\ plan.first_value = plan.before

-----------------------------------------------------------------------------
(* The profiles of the analysis phase *)

SeparationFailed == plan.demucs.kind \in {"exit_nonzero", "no_directory", "raises"}

Classes == {"drums", "bass", "other", "vocals", "guitar", "piano"}

\* C17: for every sample type, the default heuristic profile has its six
\* class values in [0,1] and their sum is at most 1 (100 hundredths).
C17_DefaultProfileSumsToAtMostOne ==
    (plan.pc = "analysed" /\ SeparationFailed) =>
        /\ plan.spectral_profile.unit = 100
        /\ DOMAIN plan.spectral_profile.values = Classes
        /\ \A class \in Classes : plan.spectral_profile.values[class] \in 0..100
        /\ sum_values(plan.spectral_profile.values) <= 100

\* the distance of the sum of a profile to 1, in units of the profile
off_one(profile) ==
    IF sum_values(profile.values) >= profile.unit
    THEN sum_values(profile.values) - profile.unit
    ELSE profile.unit - sum_values(profile.values)

\* C18: every profile returned by the estimator after a separation that ran
\* has values that sum to 1 within 1e-3, also when a stem cannot be read and
\* when all stems are silent.
C18_EstimatorProfileSumsToOne ==
    (plan.pc = "analysed" /\ plan.demucs.kind = "separated") =>
        off_one(plan.spectral_profile) * 1000 <= plan.spectral_profile.unit

\* C19: whenever separation fails (non-zero exit, missing directory, or an
\* exception in the analysis), manage_layer is still called, and the profile
\* used for planning and stored with the layer is the default profile of the
\* sample's declared type, not of its file name or layer id.
C19_FallbackProfileByDeclaredType ==
    (plan.pc = "managed" /\ SeparationFailed) =>
        /\ plan.manage_layer_called
        /\ plan.spectral_profile =
               in_hundredths(create_default_profile(plan.sample_type))
        /\ plan.layer_profile \in
               {NoProfile, in_hundredths(create_default_profile(plan.sample_type))}

-----------------------------------------------------------------------------
(* The buffer of a layer *)

\* C20: after any sequence of set_volume and set_pan calls on a loaded layer,
\* the buffer is the file scaled once by the current volume (0.8 times the
\* clamped value) and attenuated once by the current pan, whatever the
\* earlier calls were.
C20_BufferAppliedOnce ==
    plan.audio_data =
        apply_volume_and_pan(original_data, plan.layer.volume, plan.layer.pan)

\* the last call made on the layer was set_pan
AfterSetPan ==
    plan.calls # <<>> /\ plan.calls[Len(plan.calls)].op = "set_pan"

\* the file with the volume alone
gain_only(volume) ==
    [left |-> scaled(original_data.left, volume),
     right |-> scaled(original_data.right, volume)]

\* C21: for every pan p, set_pan(p) followed by set_pan(0) leaves in both
\* channels of the buffer the file scaled by the current volume, with no pan.
C21_PanRoundTrip ==
    (/\ Len(plan.calls) >= 2
     /\ plan.calls[Len(plan.calls)] = [op |-> "set_pan", arg |-> 0]
     /\ plan.calls[Len(plan.calls) - 1].op = "set_pan")
        => plan.audio_data = gain_only(plan.layer.volume)

\* set_volume compounded, then set_pan(p) with p # 0, then set_pan(0)
C21_Witness ==
    /\ Len(plan.calls) = 3
    /\ plan.calls[1].op = "set_volume"
    /\ plan.calls[2].op = "set_pan" /\ plan.calls[2].arg # 0
    /\ plan.calls[3] = [op |-> "set_pan", arg |-> 0]
    /\ plan.layer.volume > 0
    /\ plan.audio_data = gain_only(plan.layer.volume)

\* C22 as stated: right after the constructor or a set_pan, a pan > 0 has
\* multiplied the right channel by (1 - pan) and left the left channel at the
\* volume alone; a pan < 0 has multiplied the left channel by (1 + pan) and
\* left the right one; a pan of 0 attenuates neither.
C22_PanAttenuatesNamedChannel ==
    (plan.calls = <<>> \/ AfterSetPan) =>
        LET volume == plan.layer.volume
            pan == plan.layer.pan
            full == scaled(fraction(1, 1), volume)
        IN  /\ pan > 0 => /\ plan.audio_data.left = full
                          /\ plan.audio_data.right =
                                 scaled(scaled(fraction(1, 1), 100 - pan), volume)
            /\ pan < 0 => /\ plan.audio_data.right = full
                          /\ plan.audio_data.left =
                                 scaled(scaled(fraction(1, 1), 100 + pan), volume)
            /\ pan = 0 => plan.audio_data = gain_only(volume)

\* C22, amended: a pan > 0 multiplies the left channel by (1 - pan) and leaves
\* the right channel at the volume alone; a pan < 0 multiplies the right
\* channel by (1 + pan) and leaves the left one; a pan of 0 attenuates
\* neither.
C22_PanAttenuatesOppositeChannel ==
    (plan.calls = <<>> \/ AfterSetPan) =>
        LET volume == plan.layer.volume
            pan == plan.layer.pan
            full == scaled(fraction(1, 1), volume)
        IN  /\ pan > 0 => /\ plan.audio_data.right = full
                          /\ plan.audio_data.left =
                                 scaled(scaled(fraction(1, 1), 100 - pan), volume)
            /\ pan < 0 => /\ plan.audio_data.left = full
                          /\ plan.audio_data.right =
                                 scaled(scaled(fraction(1, 1), 100 + pan), volume)
            /\ pan = 0 => plan.audio_data = gain_only(volume)

\* after set_pan(0.5) at a volume above 0: the left channel is half the right
C22_Witness ==
    /\ AfterSetPan
    /\ plan.layer.pan = 50
    /\ plan.layer.volume > 0
    /\ plan.audio_data.right = scaled(fraction(1, 1), plan.layer.volume)
    /\ plan.audio_data.left # plan.audio_data.right

\* C23: in every state of a layer, after construction with any volume and pan
\* and after any set_volume and set_pan calls, the volume applied to the
\* buffer is 0.8 times a value of [0,1] and the pan is within [-1,1].
C23_VolumeAndPanInRange ==
    /\ plan.layer.volume \in 0..80
    /\ plan.layer.pan \in -100..100

-----------------------------------------------------------------------------
(* Layer objects on the clock *)

\* the last event of the clock was a "measure_start" and every listener has
\* been called
BeatDelivered == plan.clock.pc = "idle" /\ plan.clock.event = "measure_start"

\* C24: when the load fails the object is still constructed, with
\* is_loaded() false; play() on it does nothing (it is neither armed nor a
\* listener of the clock), and no clock event ever starts its buffer.
C24_UnloadedLayerNeverStarts ==
    \A i \in LayerObjects :
        ~plan.objs[i].loaded =>
            /\ ~plan.objs[i].is_armed
            /\ ~plan.objs[i].subscribed
            /\ plan.attempts[i] = 0
            /\ plan.sounding # i
            /\ ~(plan.clock.pc = "trigger" /\ plan.clock.cur = i)

\* play() was called on a layer that did not load, and a beat has started
\* the other layer
C24_Witness ==
    /\ BeatDelivered
    /\ \E i, j \in LayerObjects :
          /\ ~plan.objs[i].loaded
          /\ plan.life[i] = "played"
          /\ plan.attempts[j] = 1

\* C25: after stop() a layer is not armed and not a listener of the clock,
\* and no "measure_start" delivered to it afterwards starts its buffer,
\* however the statements of stop() interleave with the delivery (here: no
\* call of on_midi_event made once stop() has begun reaches the play).
C25_ReleasedLayerNeverStarts ==
    /\ \A i \in LayerObjects :
          plan.life[i] = "released" =>
              ~plan.objs[i].is_armed /\ ~plan.objs[i].subscribed
    /\ plan.clock.pc = "trigger" => ~plan.clock.late

\* a loaded layer that was a listener when the beat was sent, released while
\* the beat was being delivered, and called after it was disarmed
C25_Witness ==
    /\ BeatDelivered
    /\ \E i \in LayerObjects :
          /\ plan.objs[i].loaded
          /\ plan.life[i] = "released"
          /\ i \in plan.clock.listeners
          /\ plan.attempts[i] = 0
          /\ \E j \in LayerObjects : plan.attempts[j] = 1

\* C26: a release removes the file only if cleanup was asked and the file
\* name holds one of the markers; a file whose name holds none is kept,
\* whatever its directory; when the removal fails the file stays and the
\* layer is released all the same.
C26_OnlyMarkedFileNamesRemoved ==
    \A i \in LayerObjects :
        /\ plan.cleanup[i] \in {"removed", "failed"} =>
               is_temp_file_by_name(plan.file_path[i])
        /\ plan.cleanup[i] = "failed" =>
               plan.file_exists[i] /\ plan.life[i] = "released"
        /\ plan.cleanup[i] = "not_asked" => plan.life[i] = "released"

\* C27: when the device rejects the play of a layer on a beat, nothing leaves
\* the handler: the layer stays armed and a listener, it is tried once in
\* that beat, the other armed listeners are still called with the beat, and
\* the layer is tried again on the next "measure_start".
C27_RejectedTriggerIsSkipped ==
    /\ \A i \in LayerObjects : plan.attempts[i] <= 1
    /\ \A i \in plan.rejected :
          plan.life[i] = "played" =>
              plan.objs[i].is_armed /\ plan.objs[i].subscribed
    /\ BeatDelivered =>
          \A i \in plan.clock.listeners :
              plan.life[i] = "played" => plan.attempts[i] = 1

\* layer 1 was rejected on the beat before and again on this one; layer 2 was
\* started by this beat
C27_Witness ==
    /\ BeatDelivered
    /\ 1 \in plan.rejected_before
    /\ plan.rejected = {1}
    /\ plan.attempts = [i \in LayerObjects |-> 1]
    /\ plan.objs[1].is_armed

-----------------------------------------------------------------------------
(* The volume entries of the planner's output *)

is_volume(effect) == get(effect, "type", "") = "volume"

\* the volume entries of a list, in order
volume_entries(l) == SelectSeq(l, is_volume)

\* the energy of the mix and the new sample together
CombinedEnergy ==
    total_energy(plan.existing_profiles) + sum_values(plan.new_profile)

\* C29: the global trim is made exactly when the energy of the existing
\* profiles and the new one together exceeds 1.5; then, and only then, the
\* output holds a volume entry lowered by r = min(0.3, 0.15 x overage), taken
\* off the first volume entry if there is one, appended as a volume entry of
\* gain -r otherwise (stated for the calls in which the drums rule, the only
\* other writer of volume entries, does not apply).
C29_TrimExactlyOverBudget ==
    (plan.pc = "called" /\ ~DrumsRuleApplies /\ DOMAIN plan.existing_profiles # {})
        => volume_entries(plan.first_value) =
              IF CombinedEnergy > 150
              THEN volume_entries(
                       Trimmed(plan.before,
                               min(3000, (CombinedEnergy - 150) * 15)))
              ELSE volume_entries(plan.before)

\* the gain the drums rule writes: -0.1 x min(congestion, 2)
DrumsReduction ==
    -1000 * min(strong_elements(plan.existing_profiles).drums, 2)

\* the list the first call returned, after the bass and drums rules of a
\* further call
AfterDrumsRule ==
    LET strong == strong_elements(plan.existing_profiles)
        s == drums_rule(
                 bass_rule([heap |-> plan.first_value,
                            effects |-> [k \in 1..Len(plan.first_value) |-> k]],
                           plan.new_profile, strong),
                 plan.new_profile, strong)
    IN  deep_value(s.heap, s.effects)

max(a, b) == IF a > b THEN a ELSE b

\* C30: when the drums rule applies the output holds a low-pass entry, and
\* the rule replaces: a volume entry that is there has its gain overwritten
\* with -0.1 x min(congestion, 2), whatever it was, and no second volume
\* entry is appended (the global trim, which comes after, is the only thing
\* taken off that gain); an output never holds more volume entries than
\* max(1, the number of volume entries of the input).
C30_DrumsTrimReplaces ==
    /\ (plan.pc # "ready" /\ DrumsRuleApplies)
          => \E k \in 1..Len(plan.first_value) :
                 get(plan.first_value[k], "type", "") = "lpf"
    /\ (plan.pc = "fed_back" /\ DrumsRuleApplies)
          => /\ \E k \in 1..Len(plan.second_value) :
                    get(plan.second_value[k], "type", "") = "lpf"
             /\ volume_entries(AfterDrumsRule)[1].gain = DrumsReduction
             /\ Len(volume_entries(AfterDrumsRule))
                   = Len(volume_entries(plan.first_value))
             /\ volume_entries(plan.second_value)[1].gain =
                    DrumsReduction - (IF TrimApplies THEN TrimReduction ELSE 0)
    /\ plan.pc # "ready"
          => Len(volume_entries(plan.first_value))
                <= max(1, Len(volume_entries(plan.before)))
    /\ plan.pc = "called_twice"
          => Len(volume_entries(plan.second_value))
                <= max(1, Len(volume_entries(plan.before)))
    /\ plan.pc = "fed_back"
          => Len(volume_entries(plan.second_value))
                <= max(1, Len(volume_entries(plan.first_value)))

\* the drums rule applied to a list whose volume entry held the gain of an
\* earlier drums trim and of the global trim: the gain was overwritten
C30_Witness ==
    /\ plan.pc = "fed_back"
    /\ DrumsRuleApplies
    /\ TrimApplies
    /\ volume_entries(plan.first_value)[1].gain = DrumsReduction - TrimReduction
    /\ volume_entries(AfterDrumsRule)[1].gain = DrumsReduction
    /\ Len(volume_entries(plan.second_value)) = 1

-----------------------------------------------------------------------------
(* The profiles the planner is given on an add_replace *)

\* the layers of the mix other than the one the decision names
OtherLayers == del(plan.mix, plan.layer_id)

\* C28: on add_replace the planner is run against the profiles of the other
\* layers: when the id already names a layer of the mix, the profile of that
\* layer is not in existing_profiles and counts neither in the congestion
\* counts nor in the energy total.
C28_PlannedAgainstOtherLayers ==
    (plan.pc = "analysed" /\ plan.planner_ran) =>
        /\ plan.layer_id \notin DOMAIN plan.existing_profiles
        /\ plan.existing_profiles = OtherLayers
        /\ strong_elements(plan.existing_profiles) = strong_elements(OtherLayers)
        /\ total_energy(plan.existing_profiles) = total_energy(OtherLayers)

-----------------------------------------------------------------------------
(* on_midi_event, call by call *)

\* a step in which on_midi_event is called on a listener, and the listener
DeliverStep ==
    /\ plan.clock.pc = "dispatch"
    /\ plan'.clock.todo # plan.clock.todo

Delivered == CHOOSE i \in plan.clock.todo : i \notin plan'.clock.todo

\* C31: a "measure_start" goes on to the play of a layer's buffer if and only
\* if the layer is armed when on_midi_event is called; the play comes after
\* the device was stopped, so that nothing but this buffer sounds after it
\* (nothing at all if the device rejects the play); a "stop" halts the device
\* and leaves is_armed and the listeners as they were, so the layer is
\* triggered again at the next "measure_start".
C31_ArmedLayersTrigger ==
    [][/\ DeliverStep =>
            /\ plan'.clock.pc = "trigger"
                  <=> (plan.clock.event = "measure_start"
                          /\ plan.objs[Delivered].is_armed)
            /\ plan'.clock.pc = "trigger" => plan'.clock.cur = Delivered
            /\ plan.clock.event = "stop" => plan'.sounding = 0
            /\ plan'.objs = plan.objs
       /\ plan.clock.pc = "trigger" =>
            /\ plan'.clock.pc # "trigger" =>
                   plan'.sounding \in {0, plan.clock.cur}
            /\ plan'.clock.pc # "trigger" =>
                   plan'.attempts[plan.clock.cur]
                       = plan.attempts[plan.clock.cur] + 1
       /\ (plan'.clock.pc = "idle" /\ plan'.clock.event = "measure_start"
              /\ plan'.clock.previous = "stop") =>
             \A i \in plan'.clock.listeners :
                 plan'.life[i] = "played" => plan'.attempts[i] = 1
      ]_vars

\* a "stop" was delivered to two armed layers, then a "measure_start": both
\* were triggered, and the buffer of one of them sounds
C31_Witness ==
    /\ BeatDelivered
    /\ plan.clock.previous = "stop"
    /\ plan.clock.listeners = LayerObjects
    /\ \A i \in LayerObjects : plan.objs[i].is_armed /\ plan.attempts[i] = 1
    /\ plan.sounding \in LayerObjects

\* a statement of stop() is executed, and the layer it is executed on
StopStep == plan'.stopping # plan.stopping

Stopped ==
    IF plan.stopping.pc = "idle" THEN plan'.stopping.layer
    ELSE plan.stopping.layer

\* C38: the release of one layer leaves every other layer as it was: armed
\* flag, listener of the clock, volume, pan and file are the same after each
\* statement of stop() as before it, so that every other armed layer is
\* still triggered by the "measure_start" that follows.
C38_ReleaseLeavesOthers ==
    [][/\ StopStep =>
            \A j \in LayerObjects \ {Stopped} :
                /\ plan'.objs[j] = plan.objs[j]
                /\ plan'.file_path[j] = plan.file_path[j]
                /\ plan'.file_exists[j] = plan.file_exists[j]
                /\ plan'.life[j] = plan.life[j]
       /\ (/\ plan'.clock.pc = "idle"
           /\ plan'.clock.event = "measure_start"
           /\ \E i \in LayerObjects : plan'.life[i] = "released") =>
             \A j \in plan'.clock.listeners :
                 plan'.life[j] = "played" => plan'.attempts[j] = 1
      ]_vars

\* layer 1, armed, was released and its file removed before the beat was
\* sent; the beat triggered layer 2, whose file is still there
C38_Witness ==
    /\ BeatDelivered
    /\ plan.objs[1].loaded
    /\ plan.life[1] = "released"
    /\ plan.cleanup[1] = "removed"
    /\ plan.clock.listeners = {2}
    /\ plan.objs[2].is_armed
    /\ plan.attempts[2] = 1
    /\ plan.file_exists[2]

-----------------------------------------------------------------------------
(* What the decision source is told of the mix *)

\* C32: after every processed decision the ids of
\* session_state["active_layers"] are the keys of the layers mapping,
\* whatever the sequence of add_replace (accepted or rejected), modify,
\* remove (immediate or at the next bar) and forced evictions.
C32_ActiveLayersAreTheMix ==
    [][(pc \in {"manage", "update", "evict"} /\ pc' = "idle")
          => session_state'.active_layers = DOMAIN layers']_vars

\* C34: once stop_session has returned and the decision thread has left its
\* loop, the mapping is empty and no layer is armed on the clock, whatever the
\* decision thread was doing when stop_session ran
C34_NothingLeftAfterShutdown ==
    (pc = "exited" /\ ~session_running)
        => /\ layers = EmptyDict
           /\ \A id \in DOMAIN layers : ~layers[id].is_armed

-----------------------------------------------------------------------------
(* The decision loop and the decision source: DJSystem._main_loop with
   DJAILL.get_next_decision and DJAILL._build_prompt. plan holds the
   decision source's session_state, the LayerManager's master_tempo, the
   seconds elapsed since global_playback_start_time (a layer has started
   at second 0), the decision in hand and the last prompt built *)

\* DJ_PROFILES[profile_name].get("default_tempo", 126)
default_tempo == 126

\* history[-5:]: the entries of the history that _build_prompt reads
history_window == 5

\* seconds of playback that the model follows
MaxSeconds == 3

\* DJAILL.__init__: the session_state of the decision source (of its keys,
\* those that the prompt reports and the history)
DJAILL == [tempo |-> default_tempo, phase |-> "intro", history |-> <<>>]

\* _main_loop before its loop: time_elapsed_beats if absent, set_phase
main_loop_entry(ss) ==
    put(put(ss, "time_elapsed_beats", get(ss, "time_elapsed_beats", 0)),
        "set_phase", "intro")

\* LayerManager.set_master_tempo(tempo)
set_master_tempo(tempo) == tempo

Tempos == {60, 140}
Phases == {"build"}

\* what json.loads can return for the answer of the language model: decisions
\* with both keys (of a known type or not) and objects lacking one of them
LoopDecisions ==
    {[action_type |-> "set_tempo", parameters |-> [new_tempo |-> t]] :
        t \in Tempos}
    \cup {[action_type |-> "set_phase", parameters |-> [new_phase |-> p]] :
             p \in Phases}
    \cup {[action_type |-> "dance", parameters |-> EmptyDict],
          [parameters |-> [new_phase |-> "build"]],
          [action_type |-> "set_phase"]}

KnownActionTypes == {"manage_layer", "speech", "set_tempo", "set_key", "set_phase"}

malformed(decision) ==
    \/ "action_type" \notin DOMAIN decision
    \/ "parameters" \notin DOMAIN decision
    \/ decision.action_type \notin KnownActionTypes

\* int(elapsed_session_time / (60.0 / master_tempo))
time_elapsed_beats(elapsed_session_time, master_tempo) ==
    (elapsed_session_time * master_tempo) \div 60

\* _build_prompt: action['action_type'] and action['parameters'] of each of
\* the last entries of the history; a missing key raises KeyError
build_prompt_raises(ss) ==
    \E i \in 1..Len(ss.history) :
        ~({"action_type", "parameters"} \subseteq DOMAIN ss.history[i])

\* _build_prompt: the tempo and the phase that the prompt reports
build_prompt(ss) ==
    [tempo |-> get(ss, "tempo", default_tempo), phase |-> get(ss, "phase", "intro")]

NoPrompt == [tempo |-> 0, phase |-> ""]

\* session_state["history"].append(decision); the model keeps the entries
\* that history[-5:] can still reach
append_history(history, decision) ==
    LET h == Append(history, decision)
    IN  IF Len(h) > history_window THEN Tail(h) ELSE h

\* _process_dj_decision for set_tempo, set_phase and the types it does not
\* know: the master tempo and the session_state after the call
process_tempo_phase(st, decision) ==
    LET action_type == get(decision, "action_type", "")
        params == get(decision, "parameters", EmptyDict)
    IN  CASE action_type = "set_tempo" /\ "new_tempo" \in DOMAIN params ->
                 [master_tempo |-> set_master_tempo(params.new_tempo),
                  session_state |->
                      put(st.session_state, "current_tempo", params.new_tempo)]
          [] action_type = "set_phase" /\ "new_phase" \in DOMAIN params ->
                 [master_tempo |-> st.master_tempo,
                  session_state |->
                      put(st.session_state, "set_phase", params.new_phase)]
          [] OTHER ->
                 [master_tempo |-> st.master_tempo,
                  session_state |-> st.session_state]

InitLoop ==
    /\ InitSystem
    /\ plan = [pc |-> "loop", session_state |-> main_loop_entry(DJAILL),
               master_tempo |-> set_master_tempo(default_tempo), now |-> 0,
               decision |-> EmptyDict, prompt |-> NoPrompt, processed |-> 0]

\* one second of playback passes
Tick ==
    /\ plan.now < MaxSeconds
    /\ plan' = [plan EXCEPT !.now = @ + 1]
    /\ UNCHANGED sysvars

\* one turn of the loop up to the return of get_next_decision:
\* time_elapsed_beats is written, then the prompt is built (or raises, and the
\* loop's handler is entered), the answer is parsed and joins the history
LoopTurn ==
    /\ plan.pc = "loop"
    /\ LET ss == put(plan.session_state, "time_elapsed_beats",
                     time_elapsed_beats(plan.now, plan.master_tempo))
       IN  IF build_prompt_raises(ss)
           THEN plan' = [plan EXCEPT !.session_state = ss, !.pc = "except"]
           ELSE \E decision \in LoopDecisions :
                    plan' = [plan EXCEPT
                               !.session_state =
                                   put(ss, "history",
                                       append_history(ss.history, decision)),
                               !.prompt = build_prompt(ss),
                               !.decision = decision,
                               !.pc = "process"]
    /\ UNCHANGED sysvars

\* self._process_dj_decision(decision)
LoopProcess ==
    /\ plan.pc = "process"
    /\ LET r == process_tempo_phase(plan, plan.decision)
       IN  plan' = [plan EXCEPT !.session_state = r.session_state,
                                !.master_tempo = r.master_tempo,
                                !.decision = EmptyDict,
                                !.processed = 1 - @,
                                !.pc = "loop"]
    /\ UNCHANGED sysvars

\* except Exception: the error is printed, the loop sleeps and goes on
LoopExcept ==
    /\ plan.pc = "except"
    /\ plan' = [plan EXCEPT !.pc = "loop"]
    /\ UNCHANGED sysvars

DecisionThread ==
    \/ LoopTurn
    \/ LoopProcess
    \/ LoopExcept

NextLoop ==
    \/ Tick
    \/ DecisionThread

SpecLoop == InitLoop /\ [][NextLoop]_vars

\* the decision thread is scheduled as long as it has a step to take
SpecLoopFair == SpecLoop /\ WF_vars(DecisionThread)

\* C33: once a malformed decision has been processed, the loop obtains and
\* processes a further decision (processed is the parity of the number of
\* decisions processed; with the loop at its top, the last entry of the
\* history is the last decision processed)
C33_LoopGoesOnAfterMalformed ==
    \A k \in {0, 1} :
        (/\ plan.pc = "loop"
         /\ plan.processed = k
         /\ plan.session_state.history # <<>>
         /\ malformed(plan.session_state.history[Len(plan.session_state.history)]))
            ~> (plan.processed = 1 - k)

\* C35: time_elapsed_beats never decreases
C35_BeatsNeverDecrease ==
    [][plan'.session_state.time_elapsed_beats
          >= plan.session_state.time_elapsed_beats]_vars

\* C37: a prompt built after a set_tempo or set_phase decision reports the
\* master tempo and the set phase
C37_PromptReportsTempoAndPhase ==
    [][(/\ plan.pc = "loop"
        /\ plan'.pc = "process"
        /\ plan.session_state.history # <<>>
        /\ plan.session_state.history[Len(plan.session_state.history)].action_type
              \in {"set_tempo", "set_phase"})
          => /\ plan'.prompt.tempo = plan.master_tempo
             /\ plan'.prompt.phase = plan.session_state.set_phase]_vars

-----------------------------------------------------------------------------
(* The cleanup thread of AudioLayerSync: the class attribute
   _cleanup_running, the threads that _start_cleanup_thread has started, each
   at its place in _cleanup_loop, and the number of layers constructed *)

\* constructions of a layer that the model follows
MaxConstructions == 3

\* a construction starts at most one thread
CleanupThreads == 1..MaxConstructions

InitCleanup ==
    /\ InitSystem
    /\ plan = [cleanup_running |-> FALSE, cleanup_thread |-> 0, constructed |-> 0,
               threads |-> [t \in CleanupThreads |-> "not_started"]]

\* a thread that was started and has not returned from _cleanup_loop
alive(threads, t) == threads[t] \notin {"not_started", "finished"}

\* _start_cleanup_thread(): the flag is set, a new thread enters _cleanup_loop
start_cleanup_thread(p, t) ==
    [p EXCEPT !.cleanup_running = TRUE, !.cleanup_thread = t,
              !.threads[t] = "while"]

\* AudioLayerSync(...): starts the cleanup thread unless the flag is set
Construct ==
    /\ plan.constructed < MaxConstructions
    /\ LET p == [plan EXCEPT !.constructed = @ + 1]
       IN  IF ~plan.cleanup_running
           THEN plan' = start_cleanup_thread(p, plan.constructed + 1)
           ELSE plan' = p
    /\ UNCHANGED sysvars

\* _stop_cleanup()
StopCleanupLoop ==
    /\ plan.cleanup_running
    /\ plan' = [plan EXCEPT !.cleanup_running = FALSE]
    /\ UNCHANGED sysvars

\* while cls._cleanup_running: the thread enters time.sleep(30) or returns
CleanupWhile(t) ==
    /\ plan.threads[t] = "while"
    /\ plan' = [plan EXCEPT !.threads[t] =
                   IF plan.cleanup_running THEN "sleep" ELSE "finished"]
    /\ UNCHANGED sysvars

\* time.sleep(30) returns
CleanupWake(t) ==
    /\ plan.threads[t] = "sleep"
    /\ plan' = [plan EXCEPT !.threads[t] = "collect"]
    /\ UNCHANGED sysvars

\* gc.collect(), then the test of the loop again
CleanupCollect(t) ==
    /\ plan.threads[t] = "collect"
    /\ plan' = [plan EXCEPT !.threads[t] = "while"]
    /\ UNCHANGED sysvars

NextCleanup ==
    \/ Construct
    \/ StopCleanupLoop
    \/ \E t \in CleanupThreads : CleanupWhile(t)
    \/ \E t \in CleanupThreads : CleanupWake(t)
    \/ \E t \in CleanupThreads : CleanupCollect(t)

SpecCleanup == InitCleanup /\ [][NextCleanup]_vars

\* C36: at most one cleanup thread is alive at any time
C36_OneCleanupThread ==
    Cardinality({t \in CleanupThreads : alive(plan.threads, t)}) <= 1

=============================================================================
